---- MODULE Spec2Model ----
(***************************************************************************)
(* The 3DO LZSS codec of 3ct: the streaming encoder (compress.cpp) with    *)
(* its sliding-window match tree and bit writer, and the streaming decoder *)
(* (decompress.cpp) with its bit reader and word assembly.                 *)
(*                                                                         *)
(* A uint32_t that holds a word of data (a bit buffer, a word passed to a  *)
(* sink) is the pair of its 16-bit halves: TLC's integers are 32-bit       *)
(* signed and cannot hold the upper half of the range.  Bytes, positions   *)
(* and counters are integers.                                              *)
(***************************************************************************)
EXTENDS Integers, Sequences, FiniteSets, TLC

(***************************************************************************)
(* lzss.h                                                                  *)
(***************************************************************************)
INDEX_BIT_COUNT == 12

LENGTH_BIT_COUNT == 4

WINDOW_SIZE == 2 ^ INDEX_BIT_COUNT

BREAK_EVEN == 2

END_OF_STREAM == 0

MOD_WINDOW(a) == a % WINDOW_SIZE

LOOK_AHEAD_SIZE == (2 ^ LENGTH_BIT_COUNT) + BREAK_EVEN

TREE_ROOT == WINDOW_SIZE

UNUSED == 0

(***************************************************************************)
(* errors.hpp: the result codes.  Only their being distinct and negative   *)
(* is used.                                                                *)
(***************************************************************************)
COMP_ERR_BADPTR == -1

COMP_ERR_DATAREMAINS == -2

COMP_ERR_DATAMISSING == -3

COMP_ERR_OVERFLOW == -4

(***************************************************************************)
(* uint32_t arithmetic.  A uint32_t is the pair <<high, low>> of its       *)
(* 16-bit halves.                                                          *)
(***************************************************************************)
HalfBits == 16

Half == 2 ^ HalfBits

Zero32 == <<0, 0>>

\* The uint32_t of a non-negative integer below 2^31.
ToU32(v) == <<v \div Half, v % Half>>

\* x << n and x >> n on uint32_t, for 0 <= n < 32.
Shl32(x, n) ==
    IF n >= HalfBits THEN <<(x[2] * (2 ^ (n - HalfBits))) % Half, 0>>
    ELSE <<((x[1] * (2 ^ n)) % Half) + ((x[2] * (2 ^ n)) \div Half), (x[2] * (2 ^ n)) % Half>>

Shr32(x, n) ==
    IF n >= HalfBits THEN <<0, x[1] \div (2 ^ (n - HalfBits))>>
    ELSE <<x[1] \div (2 ^ n), (x[2] \div (2 ^ n)) + ((x[1] % (2 ^ n)) * (2 ^ (HalfBits - n)))>>

\* a | b on non-negative integers.
RECURSIVE IntOr(_, _)
IntOr(a, b) ==
    IF a = 0 THEN b
    ELSE IF b = 0 THEN a
    ELSE 2 * IntOr(a \div 2, b \div 2) + (IF a % 2 = 1 \/ b % 2 = 1 THEN 1 ELSE 0)

Or32(x, y) == <<IntOr(x[1], y[1]), IntOr(x[2], y[2])>>

\* x & ((1 << n) - 1) as an integer, for n <= 16.
LowBits(x, n) == x[2] % (2 ^ n)

\* The k-th byte of a uint32_t, k = 0 the most significant one.
ByteOf(x, k) == IF k % 2 = 0 THEN x[(k \div 2) + 1] \div 256 ELSE x[(k \div 2) + 1] % 256

\* The uint32_t whose bytes are b[1] (most significant) .. b[4].
WordOfBytes(b) == <<(b[1] * 256) + b[2], (b[3] * 256) + b[4]>>

ByteSwap32(x) == WordOfBytes(<<ByteOf(x, 3), ByteOf(x, 2), ByteOf(x, 1), ByteOf(x, 0)>>)

\* byteswap.hpp: the word with its bytes reversed on a little-endian host.
byteswap_if_little_endian(le, x) == IF le THEN ByteSwap32(x) ELSE x

\* The bytes of a uint32_t in the order they lie in the host's memory.
MemoryBytes(le, x) ==
    IF le THEN <<ByteOf(x, 3), ByteOf(x, 2), ByteOf(x, 1), ByteOf(x, 0)>>
    ELSE <<ByteOf(x, 0), ByteOf(x, 1), ByteOf(x, 2), ByteOf(x, 3)>>

\* (uint8_t*)data over numDataWords words.
RECURSIVE DataBytes(_, _)
DataBytes(le, data) ==
    IF data = <<>> THEN <<>> ELSE MemoryBytes(le, Head(data)) \o DataBytes(le, Tail(data))

(***************************************************************************)
(* compress.cpp: the bit writer.  bs_UserData is what the sink has been    *)
(* passed so far; bs_Host is the host's byte order (TRUE: little-endian).  *)
(***************************************************************************)
CompInitBitStream(le) ==
    [bs_UserData |-> <<>>, bs_Host |-> le, bs_BitsLeft |-> 32, bs_BitBuffer |-> Zero32]

OutputWord(bs, word) == [bs EXCEPT !.bs_UserData = Append(@, word)]

\* A CleanupBitStream that passes the buffer to the sink even when it holds no bit.
CleanupBitStreamAlways(bs) ==
    OutputWord(bs, byteswap_if_little_endian(bs.bs_Host, bs.bs_BitBuffer))

CleanupBitStream(bs) ==
    IF bs.bs_BitsLeft # 32
    THEN OutputWord(bs, byteswap_if_little_endian(bs.bs_Host, bs.bs_BitBuffer))
    ELSE bs

\* A WriteBits that starts the next word on the bits of the word it emitted.
WriteBitsKeepingBuffer(bs, headBit, code, numBits) ==
    LET bitsLeft1 == bs.bs_BitsLeft - 1
        buffer1   == Or32(bs.bs_BitBuffer, Shl32(ToU32(headBit), bitsLeft1))
    IN  IF numBits >= bitsLeft1
        THEN LET numBits1 == numBits - bitsLeft1
                 emitted  == OutputWord(bs, byteswap_if_little_endian(bs.bs_Host,
                                 Or32(Shr32(ToU32(code), numBits1), buffer1)))
                 bitsLeft2 == 32 - numBits1
             IN  [emitted EXCEPT !.bs_BitsLeft = bitsLeft2,
                                 !.bs_BitBuffer = IF numBits1 = 0 THEN buffer1
                                                  ELSE Or32(buffer1, Shl32(ToU32(code), bitsLeft2))]
        ELSE LET bitsLeft2 == bitsLeft1 - numBits
             IN  [bs EXCEPT !.bs_BitsLeft = bitsLeft2,
                            !.bs_BitBuffer = Or32(buffer1, Shl32(ToU32(code), bitsLeft2))]

WriteBits(bs, headBit, code, numBits) ==
    LET bitsLeft1 == bs.bs_BitsLeft - 1
        buffer1   == Or32(bs.bs_BitBuffer, Shl32(ToU32(headBit), bitsLeft1))
    IN  IF numBits >= bitsLeft1
        THEN LET numBits1 == numBits - bitsLeft1
                 emitted  == OutputWord(bs, byteswap_if_little_endian(bs.bs_Host,
                                 Or32(Shr32(ToU32(code), numBits1), buffer1)))
                 bitsLeft2 == 32 - numBits1
             IN  [emitted EXCEPT !.bs_BitsLeft = bitsLeft2,
                                 !.bs_BitBuffer = IF numBits1 = 0 THEN Zero32
                                                  ELSE Shl32(ToU32(code), bitsLeft2)]
        ELSE LET bitsLeft2 == bitsLeft1 - numBits
             IN  [bs EXCEPT !.bs_BitsLeft = bitsLeft2,
                            !.bs_BitBuffer = Or32(buffer1, Shl32(ToU32(code), bitsLeft2))]

(***************************************************************************)
(* Arrays.  ch_Window, ch_Tree and dh_Window are held as the content the   *)
(* array started with (fill, in every element) and the elements that       *)
(* differ from it (set).                                                   *)
(***************************************************************************)
Array(fill) == [fill |-> fill, set |-> <<>>]

\* a[i]
At(a, i) == IF i \in DOMAIN a.set THEN a.set[i] ELSE a.fill

\* a[i] = v
Put(a, i, v) ==
    LET set == a.set
    IN  [a EXCEPT !.set = IF v = a.fill THEN [j \in (DOMAIN set) \ {i} |-> set[j]]
                          ELSE (i :> v) @@ set]

(***************************************************************************)
(* compress.cpp: the match tree.                                           *)
(***************************************************************************)
CompNode == [cn_Parent |-> UNUSED, cn_LeftChild |-> UNUSED, cn_RightChild |-> UNUSED]

\* tree[n].cn_Parent = v, tree[n].cn_LeftChild = v, tree[n].cn_RightChild = v
SetParent(tree, n, v) == Put(tree, n, [At(tree, n) EXCEPT !.cn_Parent = v])

SetLeftChild(tree, n, v) == Put(tree, n, [At(tree, n) EXCEPT !.cn_LeftChild = v])

SetRightChild(tree, n, v) == Put(tree, n, [At(tree, n) EXCEPT !.cn_RightChild = v])

\* The inner for loop of AddString from index i on: the index at which the
\* phrases at a and b first differ (LOOK_AHEAD_SIZE when they do not) and the
\* last delta computed.
RECURSIVE ComparePhrasesFrom(_, _, _, _)
ComparePhrasesFrom(window, a, b, i) ==
    IF i >= LOOK_AHEAD_SIZE THEN [i |-> i, delta |-> 0]
    ELSE LET delta == At(window, MOD_WINDOW(a + i)) - At(window, MOD_WINDOW(b + i))
         IN  IF delta # 0 THEN [i |-> i, delta |-> delta]
             ELSE ComparePhrasesFrom(window, a, b, i + 1)

ComparePhrases(window, a, b) == ComparePhrasesFrom(window, a, b, 0)

\* A replacement that leaves the parent of testNode pointing at testNode.
ReplaceDuplicateKeepingLink(tree, newNode, testNode) ==
    LET t2 == Put(tree, newNode, At(tree, testNode))
    IN  SetParent(t2, testNode, UNUSED)

\* A replacement that leaves the children of testNode pointing at testNode.
ReplaceDuplicateKeepingChildren(tree, newNode, testNode) ==
    LET parentNode == At(tree, testNode).cn_Parent
        t1 == IF At(tree, parentNode).cn_LeftChild = testNode
              THEN SetLeftChild(tree, parentNode, newNode)
              ELSE SetRightChild(tree, parentNode, newNode)
        t2 == Put(t1, newNode, At(t1, testNode))
    IN  SetParent(t2, testNode, UNUSED)

\* A replacement that does not mark testNode as detached.
ReplaceDuplicateLeavingParent(tree, newNode, testNode) ==
    LET parentNode == At(tree, testNode).cn_Parent
        t1 == IF At(tree, parentNode).cn_LeftChild = testNode
              THEN SetLeftChild(tree, parentNode, newNode)
              ELSE SetRightChild(tree, parentNode, newNode)
        t2 == Put(t1, newNode, At(t1, testNode))
        t3 == SetParent(t2, At(t2, newNode).cn_LeftChild, newNode)
    IN  SetParent(t3, At(t3, newNode).cn_RightChild, newNode)

\* AddString, lines 123-136: newNode takes the place of its duplicate testNode.
ReplaceDuplicate(tree, newNode, testNode) ==
    LET parentNode == At(tree, testNode).cn_Parent
        t1 == IF At(tree, parentNode).cn_LeftChild = testNode
              THEN SetLeftChild(tree, parentNode, newNode)
              ELSE SetRightChild(tree, parentNode, newNode)
        t2 == Put(t1, newNode, At(t1, testNode))
        t3 == SetParent(t2, At(t2, newNode).cn_LeftChild, newNode)
        t4 == SetParent(t3, At(t3, newNode).cn_RightChild, newNode)
    IN  SetParent(t4, testNode, UNUSED)

\* AddString, lines 144-147 and 156-159: newNode becomes a leaf under testNode.
AttachLeaf(tree, newNode, testNode, right) ==
    LET t1 == IF right THEN SetRightChild(tree, testNode, newNode)
              ELSE SetLeftChild(tree, testNode, newNode)
    IN  Put(t1, newNode, [cn_Parent |-> testNode,
                          cn_LeftChild |-> UNUSED, cn_RightChild |-> UNUSED])

\* A comparison that keeps the first of several equally long matches.
BetterMatchStrict(i, matchLen) == i > matchLen

\* Line 117: when a compared node becomes the best match so far.
BetterMatch(i, matchLen) == i >= matchLen

\* The while(true) loop of AddString.
RECURSIVE AddStringLoop(_, _, _, _, _, _)
AddStringLoop(tree, window, newNode, testNode, matchLen, matchPos) ==
    LET cmp   == ComparePhrases(window, newNode, testNode)
        take  == BetterMatch(cmp.i, matchLen)
        len1  == IF take THEN cmp.i ELSE matchLen
        pos1  == IF take THEN testNode ELSE matchPos
        test  == At(tree, testNode)
    IN  IF take /\ len1 >= LOOK_AHEAD_SIZE
        THEN [tree |-> ReplaceDuplicate(tree, newNode, testNode),
              matchLen |-> len1, matchPos |-> pos1]
        ELSE IF cmp.delta >= 0
        THEN IF test.cn_RightChild = UNUSED
             THEN [tree |-> AttachLeaf(tree, newNode, testNode, TRUE),
                   matchLen |-> len1, matchPos |-> pos1]
             ELSE AddStringLoop(tree, window, newNode, test.cn_RightChild, len1, pos1)
        ELSE IF test.cn_LeftChild = UNUSED
             THEN [tree |-> AttachLeaf(tree, newNode, testNode, FALSE),
                   matchLen |-> len1, matchPos |-> pos1]
             ELSE AddStringLoop(tree, window, newNode, test.cn_LeftChild, len1, pos1)

\* An AddString that inserts position 0 like any other.
AddStringOfAnyNode(tree, window, newNode, matchPos) ==
    AddStringLoop(tree, window, newNode, At(tree, TREE_ROOT).cn_RightChild, 0, matchPos)

\* AddString: the tree with newNode inserted, the length of the best match and
\* its position (*matchPos, left as it was when no node is compared).
AddString(tree, window, newNode, matchPos) ==
    IF newNode = END_OF_STREAM
    THEN [tree |-> tree, matchLen |-> 0, matchPos |-> matchPos]
    ELSE AddStringLoop(tree, window, newNode, At(tree, TREE_ROOT).cn_RightChild, 0, matchPos)

\* The descent of AddString from testNode, as the sequence of the nodes it
\* compares, each with the length i of the prefix it shares with the new
\* phrase: it ends at a node equal over LOOK_AHEAD_SIZE bytes or at an UNUSED
\* child.
RECURSIVE DescentFrom(_, _, _, _)
DescentFrom(tree, window, newNode, testNode) ==
    LET cmp  == ComparePhrases(window, newNode, testNode)
        next == IF cmp.delta >= 0 THEN At(tree, testNode).cn_RightChild
                ELSE At(tree, testNode).cn_LeftChild
    IN  IF cmp.i >= LOOK_AHEAD_SIZE \/ next = UNUSED THEN <<[node |-> testNode, i |-> cmp.i]>>
        ELSE <<[node |-> testNode, i |-> cmp.i]>> \o DescentFrom(tree, window, newNode, next)

Descent(tree, window, newNode) ==
    IF newNode = END_OF_STREAM THEN <<>>
    ELSE DescentFrom(tree, window, newNode, At(tree, TREE_ROOT).cn_RightChild)

\* The iteration's record of its calls: the tree DeleteString left, the
\* descent of AddString and the nodes on it.
Recorded(l, before, path) ==
    [l EXCEPT !.before = before, !.descent = path,
              !.compared = {path[k].node : k \in DOMAIN path}]

\* The do-while of DeleteString: the rightmost descendant of newNode.
RECURSIVE Rightmost(_, _)
Rightmost(tree, newNode) ==
    IF At(tree, newNode).cn_RightChild = UNUSED THEN newNode
    ELSE Rightmost(tree, At(tree, newNode).cn_RightChild)

\* DeleteString, lines 237-273: the tree with node's replacement newNode linked
\* to node's parent and children.
Splice(tree, node, parent) ==
    IF At(tree, node).cn_LeftChild = UNUSED
    THEN LET newNode == At(tree, node).cn_RightChild
         IN  [tree |-> SetParent(tree, newNode, parent), newNode |-> newNode]
    ELSE IF At(tree, node).cn_RightChild = UNUSED
    THEN LET newNode == At(tree, node).cn_LeftChild
         IN  [tree |-> SetParent(tree, newNode, parent), newNode |-> newNode]
    ELSE LET first == At(tree, node).cn_LeftChild
         IN  IF At(tree, first).cn_RightChild # UNUSED
             THEN LET newNode == Rightmost(tree, first)
                      t1 == SetRightChild(tree, At(tree, newNode).cn_Parent, UNUSED)
                      t2 == SetParent(t1, newNode, At(t1, node).cn_Parent)
                      t3 == SetLeftChild(t2, newNode, At(t2, node).cn_LeftChild)
                      t4 == SetRightChild(t3, newNode, At(t3, node).cn_RightChild)
                      t5 == SetParent(t4, At(t4, newNode).cn_LeftChild, newNode)
                      t6 == SetParent(t5, At(t5, newNode).cn_RightChild, newNode)
                  IN  [tree |-> t6, newNode |-> newNode]
             ELSE LET newNode == first
                      t1 == SetParent(tree, newNode, parent)
                      t2 == SetRightChild(t1, newNode, At(t1, node).cn_RightChild)
                      t3 == SetParent(t2, At(t2, newNode).cn_RightChild, newNode)
                  IN  [tree |-> t3, newNode |-> newNode]

\* A DeleteString that leaves the tree as it is.
DeleteStringKeepingNode(tree, node) == tree

DeleteString(tree, node) ==
    LET parent == At(tree, node).cn_Parent
    IN  IF parent = UNUSED THEN tree
        ELSE LET s  == Splice(tree, node, parent)
                 t7 == IF At(s.tree, parent).cn_LeftChild = node
                       THEN SetLeftChild(s.tree, parent, s.newNode)
                       ELSE SetRightChild(s.tree, parent, s.newNode)
             IN  SetParent(t7, node, UNUSED)

(***************************************************************************)
(* compress.cpp: the encoder.  A Compressor is a record of the struct's    *)
(* fields; ch_Cookie is TRUE while the cookie holds the instance's own     *)
(* address.  The locals of FeedCompressor and FlushCompressor are a record *)
(* too; tree, window and bs point into the instance.                       *)
(***************************************************************************)
\* CreateCompressor with a sink: memory is the content of the storage the
\* instance is created in (malloc'ed or the caller's), of which the window is
\* not written.
CreateCompressor(le, memory, allocated) ==
    [ch_Window     |-> memory,
     ch_Tree       |-> SetParent(SetRightChild(Array(CompNode), TREE_ROOT, 1), 1, TREE_ROOT),
     ch_LookAhead  |-> 1,
     ch_CurrentPos |-> 1,
     ch_MatchPos   |-> 0,
     ch_MatchLen   |-> 0,
     ch_ReplaceCnt |-> 0,
     ch_SecondPass |-> FALSE,
     ch_Cookie     |-> TRUE,
     ch_AllocatedStructure |-> allocated,
     ch_BitStream  |-> CompInitBitStream(le)]

\* The loads at the head of FeedCompressor and FlushCompressor.
Locals(comp, bytes) ==
    [tree       |-> comp.ch_Tree,
     window     |-> comp.ch_Window,
     bs         |-> comp.ch_BitStream,
     lookAhead  |-> comp.ch_LookAhead,
     currentPos |-> comp.ch_CurrentPos,
     matchLen   |-> comp.ch_MatchLen,
     matchPos   |-> comp.ch_MatchPos,
     replaceCnt |-> comp.ch_ReplaceCnt,
     src        |-> bytes]

\* What the locals tree, window and bs have written into the instance.
InPlace(comp, L) ==
    [comp EXCEPT !.ch_Tree = L.tree, !.ch_Window = L.window, !.ch_BitStream = L.bs]

\* A length field that counts from BREAK_EVEN instead of BREAK_EVEN + 1.
LengthFieldFromBreakEven(matchLen) == matchLen - BREAK_EVEN

\* The length field of a reference token.
LengthField(matchLen) == matchLen - (BREAK_EVEN + 1)

\* Lines 474-487 (and 365-378): clamp the match, write one token.
EmitToken(L) ==
    LET matchLen == IF L.matchLen > L.lookAhead THEN L.lookAhead ELSE L.matchLen
    IN  IF matchLen <= BREAK_EVEN
        THEN [L EXCEPT !.matchLen = matchLen,
                       !.bs = WriteBits(L.bs, 1, At(L.window, L.currentPos), 8),
                       !.replaceCnt = 1]
        ELSE [L EXCEPT !.matchLen = matchLen,
                       !.bs = WriteBits(L.bs, 0,
                                  (L.matchPos * (2 ^ LENGTH_BIT_COUNT)) + LengthField(matchLen),
                                  INDEX_BIT_COUNT + LENGTH_BIT_COUNT),
                       !.replaceCnt = matchLen]

\* Lines 512-515 (and 385-388): advance, insert the new phrase.
Advance(L) ==
    LET currentPos == MOD_WINDOW(L.currentPos + 1)
    IN  IF L.lookAhead # 0
        THEN LET r == AddString(L.tree, L.window, currentPos, L.matchPos)
             IN  [L EXCEPT !.currentPos = currentPos, !.tree = r.tree,
                           !.matchLen = r.matchLen, !.matchPos = r.matchPos]
        ELSE [L EXCEPT !.currentPos = currentPos]

\* A suspension that does not record that the replacement loop was left.
SuspendAtLoopHead(comp, L) ==
    [InPlace(comp, L) EXCEPT !.ch_LookAhead  = L.lookAhead,
                             !.ch_CurrentPos = L.currentPos,
                             !.ch_MatchLen   = L.matchLen,
                             !.ch_MatchPos   = L.matchPos,
                             !.ch_ReplaceCnt = L.replaceCnt,
                             !.ch_SecondPass = FALSE]

\* Lines 500-506: the state saved when the data runs out inside the
\* replacement loop.
Suspend(comp, L) ==
    [InPlace(comp, L) EXCEPT !.ch_LookAhead  = L.lookAhead,
                             !.ch_CurrentPos = L.currentPos,
                             !.ch_MatchLen   = L.matchLen,
                             !.ch_MatchPos   = L.matchPos,
                             !.ch_ReplaceCnt = L.replaceCnt,
                             !.ch_SecondPass = TRUE]

\* The loops of FeedCompressor from line 472 on, entered at the head of the
\* outer loop ("encode"), at the head of the replacement loop ("replace") or
\* at the label newData.  while(replaceCnt--) leaves replaceCnt at 0xFFFFFFFF
\* when it ends; it is written as -1 and is assigned again before it is read.
RECURSIVE FeedLoop(_, _, _)
FeedLoop(comp, L, at) ==
    IF at = "encode" THEN FeedLoop(comp, EmitToken(L), "replace")
    ELSE IF at = "replace"
    THEN IF L.replaceCnt = 0 THEN FeedLoop(comp, [L EXCEPT !.replaceCnt = -1], "encode")
         ELSE LET L1 == [L EXCEPT !.replaceCnt = @ - 1,
                                  !.tree = DeleteString(L.tree, MOD_WINDOW(L.currentPos + LOOK_AHEAD_SIZE))]
              IN  IF L1.src = <<>> THEN Suspend(comp, L1) ELSE FeedLoop(comp, L1, "newData")
    ELSE FeedLoop(comp,
                  Advance([L EXCEPT
                      !.window = Put(@, MOD_WINDOW(L.currentPos + LOOK_AHEAD_SIZE), Head(L.src)),
                      !.src = Tail(L.src)]),
                  "replace")

\* Lines 459-471: load the look-ahead buffer.
RECURSIVE FeedFill(_, _)
FeedFill(comp, L) ==
    IF L.lookAhead <= LOOK_AHEAD_SIZE
    THEN IF L.src = <<>>
         THEN [InPlace(comp, L) EXCEPT !.ch_LookAhead = L.lookAhead]
         ELSE FeedFill(comp, [L EXCEPT !.window = Put(@, L.lookAhead, Head(L.src)),
                                       !.lookAhead = @ + 1,
                                       !.src = Tail(L.src)])
    ELSE FeedLoop(comp, [L EXCEPT !.lookAhead = @ - 1], "encode")

\* FeedCompressor on a live handle: the instance after the call (the call
\* returns 0).
FeedCompressor(comp, data) ==
    LET L == Locals(comp, DataBytes(comp.ch_BitStream.bs_Host, data))
    IN  IF L.src = <<>> THEN comp
        ELSE IF comp.ch_SecondPass THEN FeedLoop(comp, L, "newData")
        ELSE FeedFill(comp, L)

\* The loops of FlushCompressor, entered like those of FeedCompressor.
RECURSIVE FlushLoop(_, _)
FlushLoop(L, at) ==
    IF at = "encode"
    THEN IF L.lookAhead >= 0 THEN FlushLoop(EmitToken(L), "replace") ELSE L
    ELSE IF at = "replace"
    THEN IF L.replaceCnt = 0 THEN FlushLoop([L EXCEPT !.replaceCnt = -1], "encode")
         ELSE FlushLoop([L EXCEPT !.replaceCnt = @ - 1,
                                  !.tree = DeleteString(L.tree, MOD_WINDOW(L.currentPos + LOOK_AHEAD_SIZE)),
                                  !.lookAhead = @ - 1],
                        "newData")
    ELSE FlushLoop(Advance(L), "replace")

FlushCompressor(comp) ==
    LET L == Locals(comp, <<>>)
    IN  InPlace(comp, FlushLoop(L, IF comp.ch_SecondPass THEN "newData" ELSE "encode"))

\* A DeleteCompressor that leaves the cookie in place.
DeleteCompressorKeepingCookie(comp) ==
    LET flushed == FlushCompressor(comp)
    IN  [flushed EXCEPT !.ch_BitStream =
            CleanupBitStream(WriteBits(flushed.ch_BitStream, 0, END_OF_STREAM, INDEX_BIT_COUNT))]

\* DeleteCompressor on a live handle (the call returns 0).
DeleteCompressor(comp) ==
    LET flushed == FlushCompressor([comp EXCEPT !.ch_Cookie = FALSE])
    IN  [flushed EXCEPT !.ch_BitStream =
            CleanupBitStream(WriteBits(flushed.ch_BitStream, 0, END_OF_STREAM, INDEX_BIT_COUNT))]

(***************************************************************************)
(* decompress.cpp: the bit reader.  bs_Data is the words of the current    *)
(* chunk not yet fetched.                                                  *)
(***************************************************************************)
\* InitBitStream: bs_Data and bs_NumDataWords are not written; numDataWords is
\* what the storage held.
DecompInitBitStream(le, numDataWords) ==
    [bs_Data |-> <<>>, bs_NumDataWords |-> numDataWords, bs_Host |-> le,
     bs_BitsLeft |-> 0, bs_BitBuffer |-> Zero32, bs_Error |-> FALSE]

\* A FeedBitStream that also empties the bit buffer.
FeedBitStreamEmptyingBuffer(bs, data) ==
    [bs EXCEPT !.bs_Data = data, !.bs_NumDataWords = Len(data), !.bs_BitsLeft = 0]

FeedBitStream(bs, data) == [bs EXCEPT !.bs_Data = data, !.bs_NumDataWords = Len(data)]

\* Lines 101-104: take numBits bits from the buffer, or them into result.
TakeBits(bs, numBits, result) ==
    LET bitsLeft == bs.bs_BitsLeft - numBits
    IN  [bs |-> [bs EXCEPT !.bs_BitsLeft = bitsLeft],
         result |-> IntOr(result, LowBits(Shr32(bs.bs_BitBuffer, bitsLeft), numBits))]

ReadBits(bs, numBits) ==
    IF numBits > bs.bs_BitsLeft
    THEN LET result   == IF bs.bs_BitsLeft # 0
                         THEN LowBits(Shl32(bs.bs_BitBuffer, numBits - bs.bs_BitsLeft), numBits)
                         ELSE 0
             numBits1 == IF bs.bs_BitsLeft # 0 THEN numBits - bs.bs_BitsLeft ELSE numBits
         IN  IF bs.bs_NumDataWords = 0
             THEN [bs |-> [bs EXCEPT !.bs_Error = TRUE], result |-> 0]
             ELSE TakeBits([bs EXCEPT !.bs_NumDataWords = @ - 1,
                                      !.bs_BitBuffer = byteswap_if_little_endian(bs.bs_Host, Head(bs.bs_Data)),
                                      !.bs_Data = Tail(@),
                                      !.bs_BitsLeft = 32],
                           numBits1, result)
    ELSE TakeBits(bs, numBits, 0)

(***************************************************************************)
(* decompress.cpp: the decoder.  dh_UserData is what the sink has been     *)
(* passed so far.                                                          *)
(***************************************************************************)
\* CreateDecompressor with a sink: memory and numDataWords are the content of
\* the storage the instance is created in (all zero when calloc'ed).
CreateDecompressor(le, memory, numDataWords, allocated) ==
    [dh_UserData   |-> <<>>,
     dh_WordBuffer |-> Zero32,
     dh_BytesLeft  |-> 4,
     dh_Pos        |-> 1,
     dh_Window     |-> memory,
     dh_BitStream  |-> DecompInitBitStream(le, numDataWords),
     dh_AllocatedStructure |-> allocated,
     dh_Cookie     |-> TRUE]

\* The number of the last window index a reference copies from.
LastCopied(matchPos, matchLen) == matchLen + matchPos

\* A flush that starts the next word without the byte that caused it.
PutByteLosingByte(D, c) ==
    LET D1 == IF D.bytesLeft = 0
              THEN [D EXCEPT !.sink = Append(@, byteswap_if_little_endian(D.bs.bs_Host, D.wordBuffer)),
                             !.wordBuffer = Zero32,
                             !.bytesLeft = 4]
              ELSE [D EXCEPT !.wordBuffer = Or32(Shl32(D.wordBuffer, 8), ToU32(c)),
                             !.bytesLeft = @ - 1]
    IN  [D1 EXCEPT !.window = Put(@, D.pos, c), !.pos = MOD_WINDOW(D.pos + 1)]

\* Lines 149-162 (and 176-189): one decoded byte goes to the word being
\* assembled and to the window.  D holds the locals of
\* internalFeedDecompressor.
PutByte(D, c) ==
    LET D1 == IF D.bytesLeft = 0
              THEN [D EXCEPT !.sink = Append(@, byteswap_if_little_endian(D.bs.bs_Host, D.wordBuffer)),
                             !.wordBuffer = ToU32(c),
                             !.bytesLeft = 3]
              ELSE [D EXCEPT !.wordBuffer = Or32(Shl32(D.wordBuffer, 8), ToU32(c)),
                             !.bytesLeft = @ - 1]
    IN  [D1 EXCEPT !.window = Put(@, D.pos, c), !.pos = MOD_WINDOW(D.pos + 1)]

\* The for loop of lines 172-190.
RECURSIVE CopyPhrase(_, _, _)
CopyPhrase(D, i, last) ==
    IF i <= last THEN CopyPhrase(PutByte(D, At(D.window, MOD_WINDOW(i))), i + 1, last) ELSE D

\* A loop that goes on while the bit buffer holds bits.
MoreWordsOrBits(bs) == bs.bs_NumDataWords # 0 \/ bs.bs_BitsLeft # 0

\* Line 144: the loop goes on while the chunk holds words not yet fetched.
MoreWords(bs) == bs.bs_NumDataWords # 0

\* The while loop of lines 144-192; halted records that it was left by the
\* break of line 168.
RECURSIVE DecodeLoop(_)
DecodeLoop(D) ==
    IF ~MoreWords(D.bs) THEN D
    ELSE LET tag == ReadBits(D.bs, 1)
         IN  IF tag.result # 0
             THEN LET c == ReadBits(tag.bs, 8)
                  IN  DecodeLoop(PutByte([D EXCEPT !.bs = c.bs], c.result))
             ELSE LET matchPos == ReadBits(tag.bs, INDEX_BIT_COUNT)
                  IN  IF matchPos.result = END_OF_STREAM
                      THEN [D EXCEPT !.bs = matchPos.bs, !.halted = TRUE]
                      ELSE LET len == ReadBits(matchPos.bs, LENGTH_BIT_COUNT)
                               matchLen == len.result + BREAK_EVEN
                           IN  DecodeLoop(CopyPhrase([D EXCEPT !.bs = len.bs], matchPos.result,
                                                     LastCopied(matchPos.result, matchLen)))

\* internalFeedDecompressor: the instance after the call, and whether the
\* call read the terminator.
internalFeedDecompressor(decomp, data) ==
    LET D == DecodeLoop([sink       |-> decomp.dh_UserData,
                         wordBuffer |-> decomp.dh_WordBuffer,
                         bytesLeft  |-> decomp.dh_BytesLeft,
                         window     |-> decomp.dh_Window,
                         bs         |-> FeedBitStream(decomp.dh_BitStream, data),
                         pos        |-> decomp.dh_Pos,
                         halted     |-> FALSE])
    IN  [decomp |-> [decomp EXCEPT !.dh_UserData   = D.sink,
                                   !.dh_Window     = D.window,
                                   !.dh_BitStream  = D.bs,
                                   !.dh_BytesLeft  = D.bytesLeft,
                                   !.dh_WordBuffer = D.wordBuffer,
                                   !.dh_Pos        = D.pos],
         halted |-> D.halted]

\* FeedDecompressor on a live handle (the call returns 0).
FeedDecompressor(decomp, data) == internalFeedDecompressor(decomp, data)

\* The condition under which closing passes the assembled word to the sink.
\* A close that also passes a word that is not complete to the sink.
FlushesPartialWord(bytesLeft) == bytesLeft # 4

\* A close that passes no word to the sink.
FlushesNothing(bytesLeft) == FALSE

FlushesAtClose(bytesLeft) == bytesLeft = 0

\* DeleteDecompressor on a live handle: the instance after the call and the
\* value returned.
DeleteDecompressor(decomp) ==
    LET bs == decomp.dh_BitStream
    IN  [decomp |-> [decomp EXCEPT
                       !.dh_Cookie = FALSE,
                       !.dh_UserData =
                           IF FlushesAtClose(decomp.dh_BytesLeft)
                           THEN Append(@, byteswap_if_little_endian(bs.bs_Host, decomp.dh_WordBuffer))
                           ELSE @],
         result |-> IF bs.bs_Error THEN COMP_ERR_DATAMISSING
                    ELSE IF bs.bs_NumDataWords # 0 THEN COMP_ERR_DATAREMAINS
                    ELSE 0]

(***************************************************************************)
(* The four operations on a handle that may be dead or null.  null: the    *)
(* handle is a null pointer (the instance is then not touched).            *)
(***************************************************************************)
\* !comp || (comp->ch_Cookie != comp), and the same for a decoder.
BadHandle(null, cookie) == null \/ ~cookie

\* The instance after FeedCompressor(comp, data, numDataWords), and the value
\* the call returns.
FeedCompressorCall(null, comp, data) ==
    IF BadHandle(null, comp.ch_Cookie) THEN comp ELSE FeedCompressor(comp, data)

FeedCompressorReturn(null, comp) ==
    IF BadHandle(null, comp.ch_Cookie) THEN COMP_ERR_BADPTR ELSE 0

\* The instance after DeleteCompressor(comp), and the value the call returns.
DeleteCompressorCall(null, comp) ==
    IF BadHandle(null, comp.ch_Cookie) THEN comp ELSE DeleteCompressor(comp)

DeleteCompressorReturn(null, comp) ==
    IF BadHandle(null, comp.ch_Cookie) THEN COMP_ERR_BADPTR ELSE 0

\* The instance after FeedDecompressor(decomp, data, numDataWords), and the
\* value the call returns.
FeedDecompressorCall(null, decomp, data) ==
    IF BadHandle(null, decomp.dh_Cookie) THEN decomp ELSE FeedDecompressor(decomp, data).decomp

FeedDecompressorReturn(null, decomp) ==
    IF BadHandle(null, decomp.dh_Cookie) THEN COMP_ERR_BADPTR ELSE 0

\* The instance after DeleteDecompressor(decomp), and the value the call
\* returns.
DeleteDecompressorCall(null, decomp) ==
    IF BadHandle(null, decomp.dh_Cookie) THEN decomp ELSE DeleteDecompressor(decomp).decomp

DeleteDecompressorReturn(null, decomp) ==
    IF BadHandle(null, decomp.dh_Cookie) THEN COMP_ERR_BADPTR
    ELSE DeleteDecompressor(decomp).result

(***************************************************************************)
(* The callers: an encoder is created, fed its input in chunks and closed  *)
(* (l::compress, SimpleCompress); then a decoder is created, fed the words *)
(* the encoder passed to its sink, all of them or a prefix, possibly       *)
(* followed by further words, and closed (l::decompress,                   *)
(* SimpleDecompress).                                                      *)
(***************************************************************************)
MaxWords == 6

MaxExtra == 2

\* The words an input is made of: "AAAA" and "ABCD" as they lie in memory.
InputBytes == {<<65, 65, 65, 65>>, <<65, 66, 67, 68>>}

\* The bytes uninitialised storage may hold.
GarbageBytes == {0, 65}

\* The words a caller may feed a decoder after the compressed stream.
ExtraWords == {WordOfBytes(<<255, 255, 255, 255>>)}

\* The uint32_t read from storage that holds the byte g throughout, as an
\* integer (g < 128).
GarbageWord(g) == (((((g * 256) + g) * 256) + g) * 256) + g

SeqsUpTo(S, n) == UNION {[1..k -> S] : k \in 0..n}

\* Storage that holds the byte g throughout.
Memory(g) == Array(g)

\* The uint32_t a host reads from four bytes of memory.
HostWord(le, b) == IF le THEN WordOfBytes(<<b[4], b[3], b[2], b[1]>>) ELSE WordOfBytes(b)

VARIABLES
    host,           \* TRUE on a little-endian host
    garbage,        \* the byte uninitialised storage holds
    input,          \* the words fed to the encoder so far
    comp,           \* the Compressor
    suspended,      \* the returns FeedCompressor has taken: "fill" (line 464), "replace" (line 506),
                    \* and "resumed" once a call has entered at newData (line 457); emptied
                    \* when the decoder is created, and then "chunked" when the decoder has
                    \* been fed the last words of the stream by a call later than its
                    \* first words and nothing since
    created,        \* CreateDecompressor has been called
    decomp,         \* the Decompressor
    fedStream,      \* how many words of the compressed stream the decoder has been fed
    fedExtra,       \* how many further words the decoder has been fed
    terminatorRead, \* a token with tag 0 and offset 0 has been read
    result,         \* <<what DeleteDecompressor returned>>, empty before it is called
    call,           \* the last call made on a handle that may be dead or null, and what it returned
    deleted,        \* the handles ("comp", "decomp") whose Delete operation has returned
    simple,         \* the SimpleCompress and SimpleDecompress calls made and what they gave
    writer,         \* a bit stream written token by token, and the tokens written to it
    lap             \* an encoder run one iteration of its loops at a time

vars == <<host, garbage, input, comp, suspended, created, decomp, fedStream, fedExtra,
          terminatorRead, result, call, deleted, simple, writer, lap>>

\* What only the specifications other than Spec change, and what neither Spec
\* nor HandleSpec changes.
otherVars == <<call, deleted, simple, writer, lap>>

restVars == <<simple, writer, lap>>

handleVars == <<call, deleted>>

NoSimple == [comp |-> <<>>, decomp |-> <<>>]

\* A bit stream nothing was written to: the tokens written, whether the
\* terminator was written and the stream cleaned up, and how many words the sink
\* had got when CleanupBitStream was called.
NoLap == [phase |-> "none"]

NoWriter == [bs |-> CompInitBitStream(FALSE), literals |-> 0, references |-> 0,
             closed |-> FALSE, beforeCleanup |-> 0]

NoCall == [op |-> "none", on |-> "none", null |-> FALSE, rv |-> 0]

NullDecompressor == [dh_Cookie |-> FALSE]

\* What the encoder has passed to its sink.
Stream == comp.ch_BitStream.bs_UserData

\* What the decoder has passed to its sink.
Output == decomp.dh_UserData

compVars == <<host, garbage, input, comp, suspended>>

decompVars == <<created, decomp, fedStream, fedExtra, terminatorRead, result>>

Init ==
    /\ host \in BOOLEAN
    /\ garbage \in GarbageBytes
    /\ input = <<>>
    /\ comp = CreateCompressor(host, Memory(garbage), TRUE)
    /\ suspended = {}
    /\ created = FALSE
    /\ decomp = NullDecompressor
    /\ fedStream = 0
    /\ fedExtra = 0
    /\ terminatorRead = FALSE
    /\ result = <<>>
    /\ call = NoCall
    /\ deleted = {}
    /\ simple = NoSimple
    /\ writer = NoWriter
    /\ lap = NoLap

\* FeedCompressor(comp, data, numDataWords)
FeedComp ==
    /\ comp.ch_Cookie
    /\ \E bytes \in SeqsUpTo(InputBytes, MaxWords - Len(input)) :
         LET data == [k \in 1..Len(bytes) |-> HostWord(host, bytes[k])]
         IN  /\ comp' = FeedCompressor(comp, data)
             /\ input' = input \o data
             /\ suspended' = IF data = <<>> THEN suspended
                             ELSE suspended
                                  \cup {IF comp'.ch_SecondPass THEN "replace" ELSE "fill"}
                                  \cup (IF comp.ch_SecondPass THEN {"resumed"} ELSE {})
    /\ UNCHANGED <<host, garbage>>
    /\ UNCHANGED decompVars
    /\ UNCHANGED otherVars

\* DeleteCompressor(comp)
CloseComp ==
    /\ comp.ch_Cookie
    /\ comp' = DeleteCompressor(comp)
    /\ UNCHANGED <<host, garbage, input, suspended>>
    /\ UNCHANGED decompVars
    /\ UNCHANGED otherVars

\* CreateDecompressor(&decomp, cf, workbuf, userdata): self-allocated
\* (calloc'ed, all zero), or in storage of the caller that holds garbage
\* (caller storage that holds zeros differs from the calloc'ed one in
\* dh_AllocatedStructure only).
CreateDecomp ==
    /\ ~comp.ch_Cookie
    /\ ~created
    /\ created' = TRUE
    /\ \/ decomp' = CreateDecompressor(host, Memory(0), 0, TRUE)
       \/ /\ garbage # 0
          /\ decomp' = CreateDecompressor(host, Memory(garbage), GarbageWord(garbage), FALSE)
    /\ suspended' = {}
    /\ UNCHANGED <<fedStream, fedExtra, terminatorRead, result>>
    /\ UNCHANGED <<host, garbage, input, comp>>
    /\ UNCHANGED otherVars

\* FeedDecompressor(decomp, data, numDataWords): the next k words of the
\* compressed stream and, once the stream is exhausted, further words.
FeedDecomp ==
    /\ created
    /\ decomp.dh_Cookie
    /\ \E k \in 0..(Len(Stream) - fedStream) :
       \E extra \in SeqsUpTo(ExtraWords, IF fedStream + k = Len(Stream) THEN MaxExtra - fedExtra ELSE 0) :
         LET r == FeedDecompressor(decomp, SubSeq(Stream, fedStream + 1, fedStream + k) \o extra)
         IN  /\ decomp' = r.decomp
             /\ terminatorRead' = (terminatorRead \/ r.halted)
             /\ fedStream' = fedStream + k
             /\ fedExtra' = fedExtra + Len(extra)
             /\ suspended' = IF extra # <<>> THEN {}
                             ELSE IF k >= 1 /\ fedStream >= 1 /\ fedStream + k = Len(Stream)
                             THEN {"chunked"}
                             ELSE suspended
    /\ UNCHANGED <<created, result>>
    /\ UNCHANGED <<host, garbage, input, comp>>
    /\ UNCHANGED otherVars

\* DeleteDecompressor(decomp)
CloseDecomp ==
    /\ created
    /\ decomp.dh_Cookie
    /\ LET r == DeleteDecompressor(decomp)
       IN  /\ decomp' = r.decomp
           /\ result' = <<r.result>>
    /\ UNCHANGED <<created, fedStream, fedExtra, terminatorRead>>
    /\ UNCHANGED compVars
    /\ UNCHANGED otherVars

Next == FeedComp \/ CloseComp \/ CreateDecomp \/ FeedDecomp \/ CloseDecomp

Spec == Init /\ [][Next]_vars

(***************************************************************************)
(* The compressed stream as the wire carries it, and its tokens.           *)
(***************************************************************************)
WordBits == 2 * HalfBits

\* The bits of the words passed to the encoder's sink as they lie in memory,
\* bit p (from 0) of the stream.
WireBit(p) ==
    LET w == byteswap_if_little_endian(host, Stream[(p \div WordBits) + 1])
        k == p % WordBits
    IN  IF k < HalfBits THEN (w[1] \div (2 ^ (HalfBits - 1 - k))) % 2
        ELSE (w[2] \div (2 ^ (WordBits - 1 - k))) % 2

StreamBits == WordBits * Len(Stream)

\* The n bits from bit p on, most significant first, as a number.
RECURSIVE WireField(_, _)
WireField(p, n) == IF n = 0 THEN 0 ELSE (2 * WireField(p, n - 1)) + WireBit(p + n - 1)

\* The stream read by the token grammar from bit p on: the tokens before the
\* terminator and the bit after the terminator's last, or no parse.
RECURSIVE ParseFrom(_, _)
ParseFrom(p, tokens) ==
    IF p + 1 + INDEX_BIT_COUNT > StreamBits THEN [ok |-> FALSE, tokens |-> tokens, end |-> p]
    ELSE IF WireBit(p) = 1
    THEN ParseFrom(p + 9, Append(tokens, [literal |-> TRUE, bytes |-> 1,
                                          value |-> WireField(p + 1, 8)]))
    ELSE LET offset == WireField(p + 1, INDEX_BIT_COUNT)
             after  == p + 1 + INDEX_BIT_COUNT
         IN  IF offset = 0 THEN [ok |-> TRUE, tokens |-> tokens, end |-> after]
             ELSE IF after + LENGTH_BIT_COUNT > StreamBits
             THEN [ok |-> FALSE, tokens |-> tokens, end |-> p]
             ELSE ParseFrom(after + LENGTH_BIT_COUNT,
                            Append(tokens, [literal |-> FALSE,
                                            bytes |-> WireField(after, LENGTH_BIT_COUNT) + 3,
                                            value |-> offset]))

Parsed == ParseFrom(0, <<>>)

RECURSIVE TokenBytes(_)
TokenBytes(tokens) == IF tokens = <<>> THEN 0 ELSE Head(tokens).bytes + TokenBytes(Tail(tokens))

IsPrefix(s, t) == Len(s) <= Len(t) /\ s = SubSeq(t, 1, Len(s))

CompClosed == ~comp.ch_Cookie

DecompClosed == created /\ ~decomp.dh_Cookie

\* What one FeedCompressor call with the whole input, then DeleteCompressor,
\* passes to the sink of an encoder created in storage holding the byte g.
OneShot(g) ==
    DeleteCompressor(FeedCompressor(CreateCompressor(host, Memory(g), TRUE), input)).ch_BitStream.bs_UserData

(***************************************************************************)
(* The claims.                                                             *)
(***************************************************************************)
\* C1: when a decoder has been fed exactly the words the encoder passed to
\* its sink and is closed, it has passed to its sink exactly the words of
\* the input, in order, and DeleteDecompressor has returned 0.
RoundTrip ==
    (DecompClosed /\ fedStream = Len(Stream) /\ fedExtra = 0)
        => (Output = input /\ result = <<0>>)

RoundTripWitness ==
    /\ DecompClosed /\ fedStream = Len(Stream) /\ fedExtra = 0
    /\ Len(input) = MaxWords
    /\ LET tokens == Parsed.tokens IN \E k \in 1..Len(tokens) : ~tokens[k].literal
    /\ Output = input /\ result = <<0>>

\* C2: whatever the chunks the input was fed in, the closed encoder has passed
\* to its sink the words one FeedCompressor call with the whole input passes.
StreamingEquivalence == (CompClosed /\ ~created) => Stream = OneShot(garbage)

StreamingEquivalenceWitness ==
    /\ CompClosed /\ ~created
    /\ suspended = {"fill", "replace", "resumed"}
    /\ LET tokens == Parsed.tokens IN \E k \in 1..Len(tokens) : ~tokens[k].literal
    /\ Stream = OneShot(garbage)

\* C3: the words the closed encoder has passed to its sink do not depend on
\* what the storage of the instance held: they are those of an encoder
\* created in storage that held zeros.
Determinism == (CompClosed /\ ~created) => Stream = OneShot(0)

\* C4: the words the closed encoder has passed to its sink parse as tokens,
\* then one terminator that ends in the last word, then zero bits only.
WireGrammar ==
    (CompClosed /\ ~created) =>
        LET parsed == Parsed
            tokens == parsed.tokens
        IN  /\ parsed.ok
            /\ StreamBits - parsed.end < WordBits
            /\ \A p \in parsed.end..(StreamBits - 1) : WireBit(p) = 0
            /\ \A k \in 1..Len(tokens) :
                   /\ tokens[k].bytes \in (IF tokens[k].literal THEN {1} ELSE 3..LOOK_AHEAD_SIZE)
                   /\ tokens[k].literal \/ tokens[k].value \in 1..(WINDOW_SIZE - 1)

WireGrammarWitness ==
    /\ CompClosed /\ ~created
    /\ suspended = {"fill", "replace", "resumed"}
    /\ LET parsed == Parsed
           tokens == parsed.tokens
       IN  /\ parsed.ok
           /\ \E k \in 1..Len(tokens) : ~tokens[k].literal
           /\ \E k \in 1..Len(tokens) : tokens[k].literal
           /\ parsed.end < StreamBits

\* C5: the tokens the closed encoder has emitted before the terminator encode
\* as many bytes as the input has.
TokensEncodeInput ==
    (CompClosed /\ ~created) =>
        LET parsed == Parsed IN parsed.ok /\ TokenBytes(parsed.tokens) = 4 * Len(input)

\* C6: an encoder closed without input has passed the one word 0x00000000 to
\* its sink, and a decoder fed that word and closed has passed no word to its.
EmptyInput ==
    /\ (CompClosed /\ input = <<>>) => Stream = <<Zero32>>
    /\ (DecompClosed /\ input = <<>> /\ fedStream = Len(Stream) /\ fedExtra = 0) => Output = <<>>

\* C7: a decoder closed before it has read a terminator returns DataMissing.
MissingDataReported ==
    (DecompClosed /\ ~terminatorRead) => result = <<COMP_ERR_DATAMISSING>>

\* C8: a decoder fed a proper word-prefix of the compressed stream and closed
\* has passed to its sink a prefix of the words of the input.
TruncationYieldsPrefix ==
    (DecompClosed /\ fedStream < Len(Stream) /\ fedExtra = 0) => IsPrefix(Output, input)

TruncationYieldsPrefixWitness ==
    /\ DecompClosed /\ fedExtra = 0
    /\ fedStream >= 1 /\ fedStream = Len(Stream) - 1
    /\ Output # <<>> /\ Output # input /\ IsPrefix(Output, input)

\* C9: a decoder that has read the terminator and has been fed at least one
\* word after the word the terminator ends in returns DataRemains when closed.
TrailingDataReported ==
    (DecompClosed /\ terminatorRead /\ fedExtra >= 1) => result = <<COMP_ERR_DATAREMAINS>>

\* C10: once the terminator has been read, a FeedDecompressor call changes
\* neither the window nor the position nor what the sink has been passed.
HaltsAtTerminator ==
    [][(terminatorRead /\ decomp.dh_Cookie /\ decomp'.dh_Cookie)
          => /\ decomp'.dh_Window = decomp.dh_Window
             /\ decomp'.dh_Pos = decomp.dh_Pos
             /\ decomp'.dh_UserData = decomp.dh_UserData]_vars

(***************************************************************************)
(* Handles: an encoder and a decoder created in storage of the caller,     *)
(* which outlives them, and callers that go on calling Feed and Delete on  *)
(* any handle, live, dead or null.                                         *)
(***************************************************************************)
MaxHandleWords == 2

\* The words the decoder is fed: literal 0, literal 0, terminator; and ones.
HandleWords == {WordOfBytes(<<128, 64, 0, 0>>), WordOfBytes(<<255, 255, 255, 255>>)}

HandleInit ==
    /\ host \in BOOLEAN
    /\ garbage \in GarbageBytes
    /\ input = <<>>
    /\ comp = CreateCompressor(host, Memory(garbage), FALSE)
    /\ suspended = {}
    /\ created = TRUE
    /\ decomp = CreateDecompressor(host, Memory(garbage), GarbageWord(garbage), FALSE)
    /\ fedStream = 0
    /\ fedExtra = 0
    /\ terminatorRead = FALSE
    /\ result = <<>>
    /\ call = NoCall
    /\ deleted = {}
    /\ simple = NoSimple
    /\ writer = NoWriter
    /\ lap = NoLap

\* FeedCompressor(comp, data, numDataWords)
HandleFeedComp ==
    \E null \in BOOLEAN :
    \E bytes \in SeqsUpTo(InputBytes, MaxHandleWords - Len(input)) :
        LET data == [k \in 1..Len(bytes) |-> HostWord(host, bytes[k])]
        IN  /\ comp' = FeedCompressorCall(null, comp, data)
            /\ call' = [op |-> "FeedCompressor", on |-> "comp", null |-> null,
                        rv |-> FeedCompressorReturn(null, comp)]
            /\ input' = IF call'.rv = 0 THEN input \o data ELSE input
            /\ UNCHANGED <<host, garbage, suspended, deleted>>
            /\ UNCHANGED decompVars
            /\ UNCHANGED restVars

\* DeleteCompressor(comp)
HandleCloseComp ==
    \E null \in BOOLEAN :
        /\ comp' = DeleteCompressorCall(null, comp)
        /\ call' = [op |-> "DeleteCompressor", on |-> "comp", null |-> null,
                    rv |-> DeleteCompressorReturn(null, comp)]
        /\ deleted' = IF null THEN deleted ELSE deleted \cup {"comp"}
        /\ UNCHANGED <<host, garbage, input, suspended>>
        /\ UNCHANGED decompVars
        /\ UNCHANGED restVars

\* FeedDecompressor(decomp, data, numDataWords)
HandleFeedDecomp ==
    \E null \in BOOLEAN :
    \E data \in SeqsUpTo(HandleWords, MaxHandleWords - fedExtra) :
        /\ decomp' = FeedDecompressorCall(null, decomp, data)
        /\ call' = [op |-> "FeedDecompressor", on |-> "decomp", null |-> null,
                    rv |-> FeedDecompressorReturn(null, decomp)]
        /\ fedExtra' = IF call'.rv = 0 THEN fedExtra + Len(data) ELSE fedExtra
        /\ UNCHANGED <<created, fedStream, terminatorRead, result, deleted>>
        /\ UNCHANGED compVars
        /\ UNCHANGED restVars

\* DeleteDecompressor(decomp)
HandleCloseDecomp ==
    \E null \in BOOLEAN :
        /\ decomp' = DeleteDecompressorCall(null, decomp)
        /\ call' = [op |-> "DeleteDecompressor", on |-> "decomp", null |-> null,
                    rv |-> DeleteDecompressorReturn(null, decomp)]
        /\ deleted' = IF null THEN deleted ELSE deleted \cup {"decomp"}
        /\ UNCHANGED <<created, fedStream, fedExtra, terminatorRead, result>>
        /\ UNCHANGED compVars
        /\ UNCHANGED restVars

HandleNext == HandleFeedComp \/ HandleCloseComp \/ HandleFeedDecomp \/ HandleCloseDecomp

HandleSpec == HandleInit /\ [][HandleNext]_vars

\* C11: a Feed or Delete call on a handle whose Delete operation has returned
\* (the instance lies in storage of the caller), or on a null handle, returns
\* BadPointer, passes nothing to a sink and changes no field of either codec.
HandleValidation ==
    [][(call'.null \/ call'.on \in deleted)
          => (call'.rv = COMP_ERR_BADPTR /\ comp' = comp /\ decomp' = decomp)]_vars

HandleValidationWitness ==
    /\ deleted = {"comp", "decomp"}
    /\ ~call.null /\ call.op = "FeedDecompressor" /\ call.rv = COMP_ERR_BADPTR
    /\ Len(input) >= 1 /\ Len(Stream) >= 1 /\ fedExtra >= 1

(***************************************************************************)
(* The bounded-buffer wrappers.  A Context is the result buffer: dest the  *)
(* words stored so far, max the capacity resultWords.  The sink has no     *)
(* effect on the codec, so the words the codec passes to it are put one by *)
(* one after the codec has run.                                            *)
(***************************************************************************)
Context(resultWords) == [dest |-> <<>>, max |-> resultWords, overflow |-> FALSE]

PutWord(ctx, word) ==
    IF Len(ctx.dest) >= ctx.max THEN [ctx EXCEPT !.overflow = TRUE]
    ELSE [ctx EXCEPT !.dest = Append(@, word)]

RECURSIVE PutWords(_, _)
PutWords(ctx, words) ==
    IF words = <<>> THEN ctx ELSE PutWords(PutWord(ctx, Head(words)), Tail(words))

\* Lines 565-571 (and 348-354): what a wrapper returns after Delete returned
\* err.
SimpleReturn(err, ctx) ==
    IF err = 0 THEN (IF ctx.overflow THEN COMP_ERR_OVERFLOW ELSE Len(ctx.dest))
    ELSE err

\* What a wrapper gives when the codec passed the words `passed' to the sink
\* and Delete returned `close': the result buffer and the value returned.
SimpleResult(resultWords, passed, close) ==
    [resultWords |-> resultWords, passed |-> passed, close |-> close,
     stored |-> PutWords(Context(resultWords), passed).dest,
     rv |-> SimpleReturn(close, PutWords(Context(resultWords), passed))]

\* SimpleCompress(source, sourceWords, result, resultWords) where malloc gives
\* storage holding the byte g; DeleteCompressor returns 0 on the handle
\* CreateCompressor gave.
SimpleCompress(le, g, source, resultWords) ==
    SimpleResult(resultWords,
                 DeleteCompressor(FeedCompressor(CreateCompressor(le, Memory(g), TRUE),
                                                 source)).ch_BitStream.bs_UserData,
                 0)

\* SimpleDecompress(source, sourceWords, result, resultWords)
SimpleDecompress(le, source, resultWords) ==
    SimpleResult(resultWords,
                 DeleteDecompressor(FeedDecompressor(CreateDecompressor(le, Memory(0), 0, TRUE),
                                                     source).decomp).decomp.dh_UserData,
                 DeleteDecompressor(FeedDecompressor(CreateDecompressor(le, Memory(0), 0, TRUE),
                                                     source).decomp).result)

(***************************************************************************)
(* The wrappers: SimpleCompress is called on an input with a result buffer *)
(* of some capacity; SimpleDecompress is then called on the words the      *)
(* encoder produced, all of them or a prefix, or followed by further       *)
(* words, again with a buffer of some capacity.                            *)
(***************************************************************************)
MaxSimpleWords == 3

MaxResultWords == 3

SimpleInit ==
    /\ host \in BOOLEAN
    /\ garbage \in GarbageBytes
    /\ input \in {[k \in 1..Len(bytes) |-> HostWord(host, bytes[k])] :
                     bytes \in SeqsUpTo(InputBytes, MaxSimpleWords)}
    /\ comp = CreateCompressor(host, Memory(garbage), TRUE)
    /\ suspended = {}
    /\ created = FALSE
    /\ decomp = NullDecompressor
    /\ fedStream = 0
    /\ fedExtra = 0
    /\ terminatorRead = FALSE
    /\ result = <<>>
    /\ call = NoCall
    /\ deleted = {}
    /\ simple = NoSimple
    /\ writer = NoWriter
    /\ lap = NoLap

SimpleComp ==
    /\ simple.comp = <<>>
    /\ \E resultWords \in 0..MaxResultWords :
           simple' = [simple EXCEPT !.comp = <<SimpleCompress(host, garbage, input, resultWords)>>]
    /\ UNCHANGED <<compVars, decompVars, handleVars, writer, lap>>

SimpleDecomp ==
    /\ simple.comp # <<>>
    /\ simple.decomp = <<>>
    /\ \E resultWords \in 0..MaxResultWords :
       \E k \in 0..Len(simple.comp[1].passed) :
       \E extra \in SeqsUpTo(ExtraWords, IF k = Len(simple.comp[1].passed) THEN 1 ELSE 0) :
           simple' = [simple EXCEPT !.decomp =
               <<SimpleDecompress(host, SubSeq(simple.comp[1].passed, 1, k) \o extra, resultWords)>>]
    /\ UNCHANGED <<compVars, decompVars, handleVars, writer, lap>>

SimpleNext == SimpleComp \/ SimpleDecomp

SimpleSpec == SimpleInit /\ [][SimpleNext]_vars

\* What C12 says of one call of a wrapper.
BoundedBuffer(r) ==
    /\ Len(r.stored) <= r.resultWords
    /\ (r.rv = COMP_ERR_OVERFLOW) <=> (Len(r.passed) > r.resultWords)
    /\ (Len(r.passed) <= r.resultWords /\ r.close = 0) => r.rv = Len(r.stored)

\* C12: a wrapper stores at most resultWords words, returns Overflow exactly
\* when the codec passed more than resultWords words to the sink, and otherwise
\* returns the number of words stored when close reported no error.
BoundedBufferWrappers ==
    /\ simple.comp # <<>> => BoundedBuffer(simple.comp[1])
    /\ simple.decomp # <<>> => BoundedBuffer(simple.decomp[1])

\* A step that is a DeleteDecompressor call on the live decoder.
DecoderCloses == decomp.dh_Cookie /\ ~decomp'.dh_Cookie

\* C13 as stated: a decoder closed while it holds 1 to 3 decoded bytes passes
\* the partially assembled word to the sink.
ClosePassesPartialWord ==
    [][(DecoderCloses /\ decomp.dh_BytesLeft \in 1..3)
          => Len(decomp'.dh_UserData) = Len(decomp.dh_UserData) + 1]_vars

\* C13: closing the decoder passes the assembled word to the sink exactly when
\* the word is complete (dh_BytesLeft = 0); 1 to 3 decoded bytes held at close
\* are dropped and the sink is left as it was.
ClosePassesCompleteWordOnly ==
    [][DecoderCloses
          => decomp'.dh_UserData =
                 IF decomp.dh_BytesLeft = 0
                 THEN Append(decomp.dh_UserData,
                             byteswap_if_little_endian(host, decomp.dh_WordBuffer))
                 ELSE decomp.dh_UserData]_vars

\* A decoder closed while holding 1 to 3 bytes, after it passed a word.
ClosePassesCompleteWordOnlyWitness ==
    /\ DecompClosed
    /\ decomp.dh_BytesLeft \in 1..3
    /\ Len(decomp.dh_UserData) >= 1

\* The input of C14: 16 bytes 0x41, as 4 words.
SixteenAs == [k \in 1..4 |-> HostWord(host, <<65, 65, 65, 65>>)]

LiteralA == [literal |-> TRUE, bytes |-> 1, value |-> 65]

\* C14: for the input of 16 bytes 0x41, fed and closed, the encoder has emitted
\* three literals, one reference with offset 1 and length 13 and the
\* terminator, and the decoder fed that stream and closed has passed the 16
\* bytes to its sink.
RepeatingPattern ==
    /\ (CompClosed /\ input = SixteenAs) =>
           LET parsed == Parsed
           IN  /\ parsed.ok
               /\ parsed.tokens = <<LiteralA, LiteralA, LiteralA,
                                    [literal |-> FALSE, bytes |-> 13, value |-> 1]>>
    /\ (DecompClosed /\ input = SixteenAs /\ fedStream = Len(Stream) /\ fedExtra = 0)
           => Output = SixteenAs

(***************************************************************************)
(* The bit stream alone: the three WriteBits calls the encoder makes, a    *)
(* literal (line 480), a reference (line 486) and, in DeleteCompressor,    *)
(* the terminator followed by CleanupBitStream (lines 401-402).  The first *)
(* token of an encoder is a literal, the tree being empty.                 *)
(***************************************************************************)
MaxTokens == 11

LiteralBytes == {255}

ReferenceCodes == {((WINDOW_SIZE - 1) * (2 ^ LENGTH_BIT_COUNT)) + LengthField(LOOK_AHEAD_SIZE)}

BitInit ==
    /\ host \in BOOLEAN
    /\ garbage = 0
    /\ input = <<>>
    /\ comp = CreateCompressor(host, Memory(garbage), TRUE)
    /\ suspended = {}
    /\ created = FALSE
    /\ decomp = NullDecompressor
    /\ fedStream = 0
    /\ fedExtra = 0
    /\ terminatorRead = FALSE
    /\ result = <<>>
    /\ call = NoCall
    /\ deleted = {}
    /\ simple = NoSimple
    /\ writer = [NoWriter EXCEPT !.bs = CompInitBitStream(host)]
    /\ lap = NoLap

WriteLiteral ==
    /\ ~writer.closed
    /\ writer.literals + writer.references < MaxTokens
    /\ \E c \in LiteralBytes :
           writer' = [writer EXCEPT !.bs = WriteBits(@, 1, c, 8), !.literals = @ + 1]
    /\ UNCHANGED <<compVars, decompVars, handleVars, simple, lap>>

WriteReference ==
    /\ ~writer.closed
    /\ writer.literals >= 1
    /\ writer.literals + writer.references < MaxTokens
    /\ \E temp \in ReferenceCodes :
           writer' = [writer EXCEPT
                         !.bs = WriteBits(@, 0, temp, INDEX_BIT_COUNT + LENGTH_BIT_COUNT),
                         !.references = @ + 1]
    /\ UNCHANGED <<compVars, decompVars, handleVars, simple, lap>>

WriteTerminator ==
    /\ ~writer.closed
    /\ writer' = [writer EXCEPT
                     !.bs = CleanupBitStream(WriteBits(@, 0, END_OF_STREAM, INDEX_BIT_COUNT)),
                     !.beforeCleanup =
                         Len(WriteBits(writer.bs, 0, END_OF_STREAM, INDEX_BIT_COUNT).bs_UserData),
                     !.closed = TRUE]
    /\ UNCHANGED <<compVars, decompVars, handleVars, simple, lap>>

BitNext == WriteLiteral \/ WriteReference \/ WriteTerminator

BitSpec == BitInit /\ [][BitNext]_vars

\* The bits of the tokens written and of the terminator after them.
TotalBits ==
    (9 * writer.literals)
        + ((1 + INDEX_BIT_COUNT + LENGTH_BIT_COUNT) * writer.references)
        + (1 + INDEX_BIT_COUNT)

\* C15: once the terminator is written and the stream cleaned up, the sink has
\* got ceil(total_bits / 32) words, where total_bits counts 9 bits a literal,
\* 17 a reference and 13 for the terminator; CleanupBitStream passed a last,
\* partial word exactly when total_bits is not a multiple of 32.
BitAccounting ==
    writer.closed =>
        /\ Len(writer.bs.bs_UserData) = (TotalBits + (WordBits - 1)) \div WordBits
        /\ (Len(writer.bs.bs_UserData) = writer.beforeCleanup + 1) <=> (TotalBits % WordBits # 0)
        /\ Len(writer.bs.bs_UserData) \in {writer.beforeCleanup, writer.beforeCleanup + 1}

\* Literals and references that with the terminator fill whole words, so that
\* CleanupBitStream passed nothing.
BitAccountingWitness ==
    /\ writer.closed
    /\ writer.literals >= 1 /\ writer.references >= 1
    /\ TotalBits % WordBits = 0
    /\ Len(writer.bs.bs_UserData) = writer.beforeCleanup

(***************************************************************************)
(* The encoder, one iteration of its loops at a time, on inputs long       *)
(* enough to take the window round: a text, then bytes 0x41 up to LapWords *)
(* words.  lap.L is the locals of FeedCompressor or FlushCompressor after  *)
(* an iteration (delete, intake, insert) of the replacement loop; the      *)
(* token that the outer loop writes when the replacement loop ends is      *)
(* written at the start of the next iteration.  lap.before is the tree as  *)
(* the iteration's DeleteString left it, lap.descent the nodes its         *)
(* AddString compared, in order, and lap.compared the set of them.  The    *)
(* input may end at any word, and the encoder is then closed.              *)
(***************************************************************************)
LapWords == 1050

LapBytes == 4 * LapWords

\* M D H F G Z
TextOrphan == <<77, 68, 72, 70, 71, 90>>

\* M D H F G Z, 14 times A, B, 8 times A, H F G Z
TextDuplicate ==
    TextOrphan \o [k \in 1..14 |-> 65] \o <<66>> \o [k \in 1..8 |-> 65] \o <<72, 70, 71, 90>>

\* M H, 17 times A, K, 17 times A, H
TextTwoChildren ==
    <<77, 72>> \o [k \in 1..17 |-> 65] \o <<75>> \o [k \in 1..17 |-> 65] \o <<72>>

LapTexts == {<<>>, TextOrphan, TextDuplicate, TextTwoChildren}

\* The k-th byte of the input that starts with text.
LapByte(text, k) == IF k <= Len(text) THEN text[k] ELSE 65

\* The head of the outer loop, reached when the replacement loop has ended:
\* lines 474-487.
EmitAtLoopHead(L) == IF L.replaceCnt = 0 THEN EmitToken(L) ELSE L

\* Lines 489-491, and 380-383 with the look-ahead shrinking.
DeleteOldest(L, shrink) ==
    [L EXCEPT !.replaceCnt = @ - 1,
              !.tree = DeleteString(L.tree, MOD_WINDOW(L.currentPos + LOOK_AHEAD_SIZE)),
              !.lookAhead = @ - shrink]

\* Lines 509-510.
Intake(L, byte) ==
    [L EXCEPT !.window = Put(@, MOD_WINDOW(L.currentPos + LOOK_AHEAD_SIZE), byte)]

\* One iteration of the replacement loop of FeedCompressor.
FeedIteration(L, byte) == Advance(Intake(DeleteOldest(EmitAtLoopHead(L), 0), byte))

\* FeedCompressor has returned from line 506 and FlushCompressor enters at
\* newData.
ResumeInFlush(L) == Advance(DeleteOldest(EmitAtLoopHead(L), 0))

\* An iteration of the replacement loop of FlushCompressor without the
\* lookAhead-- of line 382.
FlushIterationNotShrinking(L) == Advance(DeleteOldest(EmitAtLoopHead(L), 0))

\* One iteration of the replacement loop of FlushCompressor.
FlushIteration(L) == Advance(DeleteOldest(EmitAtLoopHead(L), 1))

\* The node AddString is called with by the iteration that starts from L.
Inserted(L) == IF L.lookAhead # 0 THEN MOD_WINDOW(L.currentPos + 1) ELSE END_OF_STREAM

LapInit ==
    /\ host \in BOOLEAN
    /\ garbage = 65
    /\ input = <<>>
    /\ comp = CreateCompressor(host, Memory(garbage), TRUE)
    /\ suspended = {}
    /\ created = FALSE
    /\ decomp = NullDecompressor
    /\ fedStream = 0
    /\ fedExtra = 0
    /\ terminatorRead = FALSE
    /\ result = <<>>
    /\ call = NoCall
    /\ deleted = {}
    /\ simple = NoSimple
    /\ writer = NoWriter
    /\ \E text \in LapTexts :
           lap = [phase |-> "fill", text |-> text, fed |-> 0, steps |-> 0, compared |-> {},
                  before |-> Array(CompNode), descent |-> <<>>,
                  L |-> Locals(CreateCompressor(host, Memory(garbage), TRUE), <<>>)]

\* Lines 459-471: a byte is loaded into the look-ahead; with the 18th the
\* outer loop is entered.
LapLoad ==
    /\ lap.phase = "fill"
    /\ lap.fed < LapBytes
    /\ lap' = [lap EXCEPT
                  !.L = [@ EXCEPT !.window = Put(@, lap.L.lookAhead, LapByte(lap.text, lap.fed + 1)),
                                  !.lookAhead = IF @ = LOOK_AHEAD_SIZE THEN @ ELSE @ + 1],
                  !.fed = @ + 1,
                  !.phase = IF lap.L.lookAhead = LOOK_AHEAD_SIZE THEN "feed" ELSE "fill"]
    /\ UNCHANGED <<compVars, decompVars, handleVars, simple, writer>>

LapStep ==
    /\ lap.phase = "feed"
    /\ lap.fed < LapBytes
    /\ lap' = Recorded([lap EXCEPT
                           !.L = FeedIteration(@, LapByte(lap.text, lap.fed + 1)),
                           !.fed = @ + 1,
                           !.steps = @ + 1],
                       DeleteOldest(lap.L, 0).tree,
                       Descent(DeleteOldest(lap.L, 0).tree,
                               Intake(lap.L, LapByte(lap.text, lap.fed + 1)).window,
                               Inserted(lap.L)))
    /\ UNCHANGED <<compVars, decompVars, handleVars, simple, writer>>

\* DeleteCompressor when the input has ended at a word: FlushCompressor starts
\* at the head of its outer loop, or at newData if FeedCompressor had returned
\* from its replacement loop.
LapClose ==
    /\ lap.phase \in {"fill", "feed"}
    /\ lap.fed % 4 = 0
    /\ IF lap.phase = "feed"
       THEN lap' = Recorded([lap EXCEPT !.L = ResumeInFlush(@),
                                        !.steps = @ + 1,
                                        !.phase = "flush"],
                            DeleteOldest(lap.L, 0).tree,
                            Descent(DeleteOldest(lap.L, 0).tree, lap.L.window, Inserted(lap.L)))
       ELSE lap' = [lap EXCEPT !.phase = "flush"]
    /\ UNCHANGED <<compVars, decompVars, handleVars, simple, writer>>

\* An iteration of FlushCompressor, or, when its outer loop ends, the
\* terminator and CleanupBitStream.
LapFlush ==
    /\ lap.phase = "flush"
    /\ IF lap.L.replaceCnt = 0 /\ lap.L.lookAhead < 0
       THEN lap' = [lap EXCEPT
                       !.L = [@ EXCEPT !.bs = CleanupBitStream(
                                  WriteBits(@, 0, END_OF_STREAM, INDEX_BIT_COUNT))],
                       !.compared = {},
                       !.descent = <<>>,
                       !.phase = "done"]
       ELSE lap' = Recorded([lap EXCEPT !.L = FlushIteration(@), !.steps = @ + 1],
                            DeleteOldest(lap.L, 1).tree,
                            Descent(DeleteOldest(lap.L, 1).tree, lap.L.window,
                                    Inserted(DeleteOldest(lap.L, 1))))
    /\ UNCHANGED <<compVars, decompVars, handleVars, simple, writer>>

LapNext == LapLoad \/ LapStep \/ LapClose \/ LapFlush

LapSpec == LapInit /\ [][LapNext]_vars

\* The nodes linked from the nodes of S.
Children(tree, S) ==
    ({At(tree, n).cn_LeftChild : n \in S} \cup {At(tree, n).cn_RightChild : n \in S}) \ {UNUSED}

RECURSIVE Closure(_, _, _)
Closure(tree, frontier, seen) ==
    IF frontier = {} THEN seen
    ELSE Closure(tree, Children(tree, frontier) \ (seen \cup frontier), seen \cup frontier)

\* The nodes reachable from tree[TREE_ROOT].cn_RightChild.
Reachable(tree) == Closure(tree, {At(tree, TREE_ROOT).cn_RightChild} \ {UNUSED}, {})

\* The in-order walk from node n, to depth at most fuel.
RECURSIVE InOrder(_, _, _)
InOrder(tree, n, fuel) ==
    IF n = UNUSED \/ fuel = 0 THEN <<>>
    ELSE InOrder(tree, At(tree, n).cn_LeftChild, fuel - 1) \o <<n>>
             \o InOrder(tree, At(tree, n).cn_RightChild, fuel - 1)

Encoding == lap.phase \in {"feed", "flush"}

\* From this state the encoder goes on to the head of its outer loop and
\* writes a reference.
WritesReference ==
    /\ Encoding
    /\ lap.L.replaceCnt = 0
    /\ lap.L.lookAhead >= 0
    /\ EmitToken(lap.L).matchLen > BREAK_EVEN

\* C16: no reference the encoder writes has offset 0, and AddString never
\* compares the new node with node 0.
PositionZeroNeverMatched ==
    /\ WritesReference => lap.L.matchPos # END_OF_STREAM
    /\ Encoding => END_OF_STREAM \notin lap.compared

\* The iteration that moved currentPos to 0 has run (AddString was called with
\* node 0 and compared nothing), in an encoder that has written references.
PositionZeroNeverMatchedWitness ==
    /\ lap.phase = "feed"
    /\ lap.steps = WINDOW_SIZE - 1
    /\ lap.L.currentPos = END_OF_STREAM
    /\ lap.compared = {}
    /\ lap.text = TextDuplicate
    /\ Len(lap.L.bs.bs_UserData) > 1

\* From this state the encoder goes on to call DeleteString.
Deletes == Encoding /\ ~(lap.phase = "flush" /\ lap.L.replaceCnt = 0 /\ lap.L.lookAhead < 0)

\* The node the next DeleteString call is passed.
Oldest == MOD_WINDOW(lap.L.currentPos + LOOK_AHEAD_SIZE)

\* C17: when DeleteString is called on a node that is reachable from the
\* root, afterwards that node is not reachable and every other node that was
\* reachable still is.
DeleteStringRemovesOnlyNode ==
    (Deletes /\ Oldest \in Reachable(lap.L.tree)) =>
        LET before == Reachable(lap.L.tree)
            after  == Reachable(DeleteString(lap.L.tree, Oldest))
        IN  Oldest \notin after /\ (before \ {Oldest}) \subseteq after

\* C18: after every iteration the in-order walk from the root visits
\* positions whose phrases are in non-decreasing order.
SearchTreeOrdering ==
    Encoding =>
        LET tree == lap.L.tree
            walk == InOrder(tree, At(tree, TREE_ROOT).cn_RightChild,
                            Cardinality(Reachable(tree)))
        IN  \A k \in 1..(Len(walk) - 1) :
                ComparePhrases(lap.L.window, walk[k], walk[k + 1]).delta <= 0

\* The look-ahead is full and the window has been taken round once.
SteadyState ==
    lap.phase = "feed" /\ lap.L.lookAhead = LOOK_AHEAD_SIZE /\ lap.steps >= WINDOW_SIZE

Awaited == {MOD_WINDOW(lap.L.currentPos + k) : k \in 1..(LOOK_AHEAD_SIZE - 1)}

DetachedNodesUnreachable ==
    Encoding =>
        LET tree      == lap.L.tree
            reachable == Reachable(tree)
            passed    == MOD_WINDOW(lap.L.currentPos + (LOOK_AHEAD_SIZE - 1))
        IN  /\ \A n \in reachable : At(tree, n).cn_Parent # UNUSED
            /\ lap.steps >= 1 => passed \notin reachable
            /\ (lap.compared # {} /\ lap.L.matchLen >= LOOK_AHEAD_SIZE) =>
                   lap.L.matchPos \notin reachable

\* An iteration in which DeleteString was passed a node that had children and
\* AddString replaced a duplicate.
DetachedNodesUnreachableWitness ==
    /\ lap.phase = "feed"
    /\ lap.steps >= WINDOW_SIZE - LOOK_AHEAD_SIZE
    /\ LET passed == At(lap.L.tree, MOD_WINDOW(lap.L.currentPos + (LOOK_AHEAD_SIZE - 1)))
       IN  passed.cn_LeftChild # UNUSED /\ passed.cn_RightChild # UNUSED
    /\ lap.compared # {} /\ lap.L.matchLen >= LOOK_AHEAD_SIZE
    /\ Cardinality(Reachable(lap.L.tree)) >= 2

\* The last iteration called AddString on a node other than 0.
AddStringCalled ==
    /\ lap.phase \in {"feed", "flush"}
    /\ lap.steps >= 1
    /\ lap.L.lookAhead # 0
    /\ lap.L.currentPos # END_OF_STREAM

\* That call: the tree and the window it was passed and the new node; what it
\* returned and the tree it left.
AddStringCall == [tree |-> lap.before, window |-> lap.L.window, newNode |-> lap.L.currentPos]

AddStringReturn == [tree |-> lap.L.tree, matchLen |-> lap.L.matchLen, matchPos |-> lap.L.matchPos]

\* The nodes the descent of that call compared whose phrase equals the new
\* one over all LOOK_AHEAD_SIZE bytes.
Duplicates ==
    {lap.descent[k].node : k \in {j \in DOMAIN lap.descent : lap.descent[j].i >= LOOK_AHEAD_SIZE}}

\* What C21 says of a call c that returns r when its descent meets the
\* duplicate test, with the sets of nodes reachable before and after.
Evicts(c, test, r, before, after) ==
    /\ r.matchLen = LOOK_AHEAD_SIZE
    /\ r.matchPos = test
    /\ At(r.tree, c.newNode).cn_Parent = At(c.tree, test).cn_Parent
    /\ At(r.tree, c.newNode).cn_LeftChild = At(c.tree, test).cn_LeftChild
    /\ At(r.tree, c.newNode).cn_RightChild = At(c.tree, test).cn_RightChild
    /\ At(r.tree, test).cn_Parent = UNUSED
    /\ test \in before
    /\ c.newNode \notin before
    /\ after = (before \ {test}) \cup {c.newNode}

\* C21: an AddString call whose descent meets a node with the same phrase
\* returns LOOK_AHEAD_SIZE and that node, gives the new node that node's
\* parent and children, detaches that node, and changes the reachable set
\* only by that node and the new one.
DuplicateEviction ==
    AddStringCalled =>
        \A test \in Duplicates :
            Evicts(AddStringCall, test, AddStringReturn,
                   Reachable(lap.before), Reachable(lap.L.tree))

\* The last iteration called AddString on a node whose duplicate in the tree
\* had a parent other than the root and both children.
DuplicateEvictionWitness ==
    /\ AddStringCalled
    /\ \E test \in Duplicates :
           /\ At(lap.before, test).cn_Parent \notin {TREE_ROOT, UNUSED}
           /\ At(lap.before, test).cn_LeftChild # UNUSED
           /\ At(lap.before, test).cn_RightChild # UNUSED
           /\ Cardinality(Reachable(lap.before)) >= 8

\* The greatest common-prefix length on the path from step k on.
RECURSIVE Longest(_, _)
Longest(path, k) ==
    IF k > Len(path) THEN 0
    ELSE LET rest == Longest(path, k + 1)
         IN  IF path[k].i > rest THEN path[k].i ELSE rest

\* The last step at or before k with common-prefix length len, the first one
\* at or after k.
RECURSIVE LastWith(_, _, _)
LastWith(path, len, k) == IF path[k].i = len THEN k ELSE LastWith(path, len, k - 1)

RECURSIVE FirstWith(_, _, _)
FirstWith(path, len, k) == IF path[k].i = len THEN k ELSE FirstWith(path, len, k + 1)

\* What C22 says of a call that returns r after the descent path, on which the
\* greatest common-prefix length is best.
LastBestWins(r, path, best) ==
    /\ r.matchLen = best
    /\ r.matchPos = path[LastWith(path, best, Len(path))].node

\* C22: AddString returns the greatest common-prefix length found on its
\* descent, and the position of the last compared node that has it.
MatchTieBreak ==
    AddStringCalled =>
        LastBestWins(AddStringReturn, lap.descent, Longest(lap.descent, 1))

\* The descent path has the greatest common-prefix length, long enough for a
\* reference, at two steps or more.
Tied(path, best) ==
    /\ best > BREAK_EVEN
    /\ FirstWith(path, best, 1) < LastWith(path, best, Len(path))

\* The last iteration called AddString on a node whose descent found the
\* greatest common prefix at several nodes.
MatchTieBreakWitness ==
    AddStringCalled /\ Tied(lap.descent, Longest(lap.descent, 1))

(***************************************************************************)
(* The decoder between its calls.                                          *)
(***************************************************************************)
\* The k-th word the decoder has been fed.
FedWord(k) == IF k <= fedStream THEN Stream[k] ELSE CHOOSE w \in ExtraWords : TRUE

\* The j-th 16 bits (from 0) of the words the decoder has been fed, as they
\* lie in memory.
FedHalf(j) == byteswap_if_little_endian(host, FedWord((j \div 2) + 1))[(j % 2) + 1]

\* The n bits (at most HalfBits) from bit p on, most significant first, as a
\* number: they lie in one half word or in two.
FedField(p, n) ==
    LET a == HalfBits - (p % HalfBits)
    IN  IF n <= a THEN (FedHalf(p \div HalfBits) \div (2 ^ (a - n))) % (2 ^ n)
        ELSE ((FedHalf(p \div HalfBits) % (2 ^ a)) * (2 ^ (n - a)))
             + (FedHalf((p \div HalfBits) + 1) \div (2 ^ (HalfBits - (n - a))))

FedBit(p) == FedField(p, 1)

\* The fed words read by the token grammar from bit p up to bit c: whether a
\* token (or a terminator, which ends the reading) ends at c, and how many
\* bytes the tokens from p to c encode, added to bytes.
RECURSIVE TokensUpTo(_, _, _)
TokensUpTo(p, c, bytes) ==
    IF p >= c THEN [ok |-> p = c, bytes |-> bytes]
    ELSE IF FedBit(p) = 1 THEN TokensUpTo(p + 9, c, bytes + 1)
    ELSE IF p + 1 + INDEX_BIT_COUNT > c THEN [ok |-> FALSE, bytes |-> bytes]
    ELSE IF FedField(p + 1, INDEX_BIT_COUNT) = END_OF_STREAM
    THEN [ok |-> p + 1 + INDEX_BIT_COUNT = c, bytes |-> bytes]
    ELSE IF p + 1 + INDEX_BIT_COUNT + LENGTH_BIT_COUNT > c THEN [ok |-> FALSE, bytes |-> bytes]
    ELSE TokensUpTo(p + 1 + INDEX_BIT_COUNT + LENGTH_BIT_COUNT, c,
                    bytes + FedField(p + 1 + INDEX_BIT_COUNT, LENGTH_BIT_COUNT) + BREAK_EVEN + 1)

\* The bits the decoder has taken from the words it was fed, and the bytes it
\* has decoded.
BitsRead ==
    (WordBits * ((fedStream + fedExtra) - decomp.dh_BitStream.bs_NumDataWords))
        - decomp.dh_BitStream.bs_BitsLeft

BytesDecoded == (4 * Len(Output)) + (4 - decomp.dh_BytesLeft)

\* The bits taken so far are whole tokens, and the bytes decoded those the
\* tokens encode.
BetweenTokens ==
    LET read == TokensUpTo(0, BitsRead, 0)
    IN  read.ok /\ read.bytes = BytesDecoded

\* C23: ReadBits never finds that it needs a word the chunk does not hold,
\* and when FeedDecompressor returns (from a call made before any terminator
\* was read) the bits it has taken are whole tokens, all applied.
SuspendsBetweenTokens ==
    /\ [](created => ~decomp.dh_BitStream.bs_Error)
    /\ [][(created /\ decomp.dh_Cookie /\ decomp'.dh_Cookie /\ ~terminatorRead)
              => BetweenTokens']_vars

\* FeedDecompressor has returned with bits of the last word not yet taken,
\* words of the stream not yet fed, and a reference among the tokens read.
SuspendsBetweenTokensWitness ==
    /\ created /\ decomp.dh_Cookie /\ ~terminatorRead
    /\ fedStream >= 1 /\ fedStream < Len(Stream)
    /\ decomp.dh_BitStream.bs_BitsLeft >= 1
    /\ decomp.dh_BitStream.bs_NumDataWords = 0
    /\ BetweenTokens
    /\ BitsRead < 9 * BytesDecoded

\* The bytes the decoder has decoded, which it has written to its window from
\* index 1 on (fewer than WINDOW_SIZE - 1 of them): how many, and byte k (from
\* 0).
NumDecoded == decomp.dh_Pos - 1

Decoded(k) == At(decomp.dh_Window, 1 + k)

\* C24: a closed decoder that has decoded n bytes has passed floor(n / 4)
\* words to its sink, word k holding in memory the bytes 4k to 4k + 3, in
\* order.
OutputAssembly ==
    DecompClosed =>
        /\ Len(Output) = NumDecoded \div 4
        /\ \A k \in 0..(Len(Output) - 1) :
               MemoryBytes(host, Output[k + 1])
                   = <<Decoded(4 * k), Decoded((4 * k) + 1), Decoded((4 * k) + 2), Decoded((4 * k) + 3)>>

\* A decoder closed with its last word complete, which it passed to the sink
\* at close, after words passed when their next byte arrived, and bytes
\* that differ.
OutputAssemblyWitness ==
    /\ DecompClosed
    /\ NumDecoded >= 12
    /\ NumDecoded % 4 = 0
    /\ decomp.dh_BytesLeft = 0
    /\ Len(Output) = NumDecoded \div 4
    /\ Decoded(4) # Decoded(5)

\* A decoder created as decomp was (self-allocated, or in storage of the
\* caller that holds garbage), fed the whole compressed stream by one call
\* and closed: the instance and the value DeleteDecompressor returns.
DecodedByOneCall ==
    DeleteDecompressor(
        FeedDecompressor(IF decomp.dh_AllocatedStructure
                         THEN CreateDecompressor(host, Memory(0), 0, TRUE)
                         ELSE CreateDecompressor(host, Memory(garbage), GarbageWord(garbage), FALSE),
                         Stream).decomp)

SameAs(closed) == Output = closed.decomp.dh_UserData /\ result = <<closed.result>>

\* C25: a decoder that has been fed the words of the compressed stream, in
\* whatever chunks, and is closed has passed to its sink the words, and got
\* from DeleteDecompressor the value, that one call with the whole stream
\* gives.
DecoderStreamingEquivalence ==
    (DecompClosed /\ fedStream = Len(Stream) /\ fedExtra = 0) => SameAs(DecodedByOneCall)

\* A closed decoder that was fed a stream of three words or more, with a
\* reference in it, by several calls.
DecoderStreamingEquivalenceWitness ==
    /\ DecompClosed /\ fedStream = Len(Stream) /\ fedExtra = 0
    /\ "chunked" \in suspended
    /\ Len(Stream) >= 3
    /\ Len(Output) >= 3
    /\ BytesDecoded > Len(Stream) * 4

\* The nodes R reachable in tree form a binary tree whose links and parent
\* fields agree: the in-order walk visits each node once, the children of a
\* node are distinct nodes whose parent it is, and the parent of the node
\* under the root is TREE_ROOT.
Linked(tree, R) ==
    /\ Len(InOrder(tree, At(tree, TREE_ROOT).cn_RightChild, Cardinality(R))) = Cardinality(R)
    /\ At(tree, TREE_ROOT).cn_RightChild # UNUSED
           => At(tree, At(tree, TREE_ROOT).cn_RightChild).cn_Parent = TREE_ROOT
    /\ \A n \in R :
           /\ At(tree, n).cn_LeftChild # UNUSED
                  => /\ At(tree, At(tree, n).cn_LeftChild).cn_Parent = n
                     /\ At(tree, n).cn_LeftChild # At(tree, n).cn_RightChild
           /\ At(tree, n).cn_RightChild # UNUSED
                  => At(tree, At(tree, n).cn_RightChild).cn_Parent = n

\* C26: after every iteration of the encoder, and between its DeleteString
\* and its AddString, the nodes reachable from the root form a binary tree in
\* which each node is reached by one link, from the node its parent field
\* names.
LinkConsistency ==
    Encoding =>
        /\ Linked(lap.L.tree, Reachable(lap.L.tree))
        /\ lap.steps >= 1 => Linked(lap.before, Reachable(lap.before))

\* The window has gone round and DeleteString has dropped node 4, which is
\* not reachable though its parent field names a node; the tree holds nodes
\* with two children.
LinkConsistencyWitness ==
    /\ lap.phase = "feed"
    /\ lap.text = TextOrphan
    /\ lap.steps >= WINDOW_SIZE - LOOK_AHEAD_SIZE
    /\ At(lap.L.tree, 4).cn_Parent # UNUSED
    /\ 4 \notin Reachable(lap.L.tree)
    /\ \E n \in Reachable(lap.L.tree) :
           At(lap.L.tree, n).cn_LeftChild # UNUSED /\ At(lap.L.tree, n).cn_RightChild # UNUSED

\* The nodes the do-while of DeleteString visits from newNode on along right
\* children, fuel of them at most.
RECURSIVE RightSpine(_, _, _)
RightSpine(tree, newNode, fuel) ==
    IF fuel = 0 \/ newNode = UNUSED THEN <<>>
    ELSE <<newNode>> \o RightSpine(tree, At(tree, newNode).cn_RightChild, fuel - 1)

\* The node the next iteration calls DeleteString with.
NextDeleted == MOD_WINDOW(lap.L.currentPos + LOOK_AHEAD_SIZE)

\* The walk of lines 249-258 in the next DeleteString call, when that call
\* makes it.
NextWalk ==
    IF At(lap.L.tree, NextDeleted).cn_Parent # UNUSED
       /\ At(lap.L.tree, NextDeleted).cn_LeftChild # UNUSED
       /\ At(lap.L.tree, NextDeleted).cn_RightChild # UNUSED
    THEN RightSpine(lap.L.tree, At(lap.L.tree, NextDeleted).cn_LeftChild, WINDOW_SIZE)
    ELSE <<>>

\* The walk to the rightmost descendant visits fewer nodes than the tree has.
WalkEnds == Encoding => Len(NextWalk) < WINDOW_SIZE

\* The descent of the AddString call just made compared no node twice, went
\* from each node to a child of it, and ended at a node equal over
\* LOOK_AHEAD_SIZE bytes or at an UNUSED child, where the new node now is.
DescentEnds ==
    AddStringCalled =>
        LET path == lap.descent
            last == path[Len(path)]
            new  == lap.L.currentPos
        IN  /\ path # <<>>
            /\ Cardinality(lap.compared) = Len(path)
            /\ \A k \in 1..(Len(path) - 1) :
                   /\ path[k].i < LOOK_AHEAD_SIZE
                   /\ path[k + 1].node \in {At(lap.before, path[k].node).cn_LeftChild,
                                            At(lap.before, path[k].node).cn_RightChild}
            /\ \/ last.i >= LOOK_AHEAD_SIZE
               \/ /\ At(lap.before, last.node).cn_LeftChild = UNUSED
                  /\ At(lap.L.tree, last.node).cn_LeftChild = new
               \/ /\ At(lap.before, last.node).cn_RightChild = UNUSED
                  /\ At(lap.L.tree, last.node).cn_RightChild = new

\* What the encoder in state l has left to do, in loop iterations at most:
\* the input not yet taken in and then the flush, whose replacement loop takes
\* one from the look-ahead with every iteration.
Remaining(l) ==
    CASE l.phase \in {"fill", "feed"} -> (LapBytes - l.fed) + (LOOK_AHEAD_SIZE + 3)
      [] l.phase = "flush" -> l.L.lookAhead + 2
      [] OTHER -> 0

\* The encoder has returned from DeleteCompressor or has an iteration to
\* make, or, between two calls, can be closed.
Proceeds ==
    \/ lap.phase = "done"
    \/ lap.phase = "flush"
    \/ lap.phase \in {"fill", "feed"} /\ (lap.fed < LapBytes \/ lap.fed % 4 = 0)

\* C27: every call of the encoder returns.  The descent of AddString ends at
\* a full match or at an UNUSED child, the walk of DeleteString to the
\* rightmost descendant ends, and every iteration of the loops of
\* FeedCompressor and FlushCompressor leaves less to do: it takes in a byte of
\* the finite input or takes one from the look-ahead, so that every chunking
\* comes to the end of DeleteCompressor, where the look-ahead is below 0.
Termination ==
    /\ [](DescentEnds /\ WalkEnds /\ Proceeds)
    /\ [](lap.phase # "done" => Remaining(lap) > 0)
    /\ [](lap.phase = "done" => lap.L.lookAhead < 0)
    /\ [][Remaining(lap') < Remaining(lap)]_lap

\* The encoder has been closed after the window went round on the input
\* whose deletions walk to a rightmost descendant, and its flush loop has
\* ended.
TerminationWitness ==
    /\ lap.phase = "done"
    /\ lap.text = TextOrphan
    /\ lap.steps > WINDOW_SIZE
    /\ lap.L.lookAhead = -1

\* C28 as stated: node 0 is never written.  After every iteration of
\* the encoder, and between its DeleteString and its AddString, the parent,
\* left-child and right-child fields of tree[0] are UNUSED, and when the
\* position about to be overwritten is 0, DeleteString(0) changes no field of
\* any node.
SentinelUnused ==
    Encoding =>
        /\ At(lap.L.tree, UNUSED) = CompNode
        /\ lap.steps >= 1 => At(lap.before, UNUSED) = CompNode
        /\ NextDeleted = UNUSED =>
               \A n \in 0..TREE_ROOT :
                   At(DeleteString(lap.L.tree, NextDeleted), n) = At(lap.L.tree, n)

====
